---- MODULE Spec2Model ----
(***************************************************************************)
(* Model of DocuMind's DocumentProcessor (src/document_processor.py): the  *)
(* heading classifier, the page segmenter and the title / abstract         *)
(* heuristics.  Text is a sequence of one-character strings; a Python      *)
(* Optional is None (the empty tuple) or Some(v) (a one-element tuple).    *)
(* The alphabet is ASCII: str.strip() and the regular expression class \s  *)
(* are modelled over space, tab, carriage return and line feed, [A-Z] and  *)
(* (?i) over the 26 ASCII letters, \d over the ten ASCII digits.           *)
(***************************************************************************)
EXTENDS Naturals, Sequences, FiniteSets, TLC

\* ------------------------------------------------------------------ values

None == <<>>
Some(v) == <<v>>

\* Python truthiness of an Optional[str]: None and '' are falsy.
Truthy(opt) == opt # None /\ opt[1] # <<>>

NL == "\n"
Whitespace == {" ", "\t", "\r", "\n"}
Digit == {"0","1","2","3","4","5","6","7","8","9"}
UpperSeq == <<"A","B","C","D","E","F","G","H","I","J","K","L","M","N","O","P","Q","R","S","T","U","V","W","X","Y","Z">>
LowerSeq == <<"a","b","c","d","e","f","g","h","i","j","k","l","m","n","o","p","q","r","s","t","u","v","w","x","y","z">>
Upper == {UpperSeq[i] : i \in 1..26}

\* ------------------------------------------------------- string primitives

\* s[k+1:]
Drop(s, k) == SubSeq(s, k + 1, Len(s))

\* The length of the longest prefix of s made of characters of class.
LeadCount(s, class) ==
  IF \A i \in 1..Len(s) : s[i] \in class THEN Len(s)
  ELSE (CHOOSE i \in 1..Len(s) : s[i] \notin class /\ \A j \in 1..(i-1) : s[j] \in class) - 1

\* The length of the longest suffix of s made of characters of class.
TrailCount(s, class) ==
  IF \A i \in 1..Len(s) : s[i] \in class THEN Len(s)
  ELSE Len(s) - (CHOOSE i \in 1..Len(s) : s[i] \notin class /\ \A j \in (i+1)..Len(s) : s[j] \in class)

\* str.strip()
Strip(s) ==
  IF \A i \in 1..Len(s) : s[i] \in Whitespace THEN <<>>
  ELSE SubSeq(s, LeadCount(s, Whitespace) + 1, Len(s) - TrailCount(s, Whitespace))

ToLower(c) ==
  IF c \in Upper THEN LowerSeq[CHOOSE i \in 1..26 : UpperSeq[i] = c] ELSE c

\* str.lower()
Lower(s) == [i \in 1..Len(s) |-> ToLower(s[i])]

\* str.split('\n')
RECURSIVE Split(_)
Split(s) ==
  IF \A i \in 1..Len(s) : s[i] # NL THEN <<s>>
  ELSE LET k == CHOOSE i \in 1..Len(s) : s[i] = NL /\ \A j \in 1..(i-1) : s[j] # NL
       IN  <<SubSeq(s, 1, k - 1)>> \o Split(Drop(s, k))

\* sep.join(parts)
RECURSIVE Join(_, _)
Join(sep, parts) ==
  IF parts = <<>> THEN <<>>
  ELSE IF Len(parts) = 1 THEN parts[1]
  ELSE parts[1] \o sep \o Join(sep, Tail(parts))

\* word in s
Contains(s, w) ==
  \E i \in 1..(Len(s) + 1) : i + Len(w) - 1 <= Len(s) /\ SubSeq(s, i, i + Len(w) - 1) = w

\* lines[a:b] on 0-based Python indices, b possibly beyond the end.
Slice(lines, a, b) ==
  SubSeq(lines, a + 1, IF b < Len(lines) THEN b ELSE Len(lines))

\* str(n) for n >= 0
RECURSIVE Str(_)
Str(n) ==
  IF n < 10 THEN <<(<<"0","1","2","3","4","5","6","7","8","9">>)[n + 1]>>
  ELSE Str(n \div 10) \o Str(n % 10)

\* --------------------------------------------------- regular expressions

\* ^lit at the start of s, case-sensitive.
StartsWith(s, lit) == Len(s) >= Len(lit) /\ SubSeq(s, 1, Len(lit)) = lit

\* (?i)^lit : lit is given in lower case.
StartsWithCI(s, lit) == StartsWith(Lower(s), lit)

\* (?i)^d\.\s*lit : the digit d, a period, any whitespace, then lit.
NumberedCI(s, d, lit) ==
  /\ StartsWith(s, <<d, ".">>)
  /\ LET rest == Drop(s, 2)
     IN  StartsWithCI(Drop(rest, LeadCount(rest, Whitespace)), lit)

\* r'^[A-Z][^.!?]*$'
re_title(s) ==
  /\ Len(s) >= 1
  /\ s[1] \in Upper
  /\ \A i \in 2..Len(s) : s[i] \notin {".", "!", "?"}

\* r'(?i)^(abstract|summary)'
re_abstract(s) ==
  \/ StartsWithCI(s, <<"a","b","s","t","r","a","c","t">>)
  \/ StartsWithCI(s, <<"s","u","m","m","a","r","y">>)

\* r'(?i)^(introduction|1\.\s*introduction)'
re_introduction(s) ==
  \/ StartsWithCI(s, <<"i","n","t","r","o","d","u","c","t","i","o","n">>)
  \/ NumberedCI(s, "1", <<"i","n","t","r","o","d","u","c","t","i","o","n">>)

\* r'(?i)^(methodology|methods?|2\.\s*method)'
re_methodology(s) ==
  \/ StartsWithCI(s, <<"m","e","t","h","o","d","o","l","o","g","y">>)
  \/ StartsWithCI(s, <<"m","e","t","h","o","d">>)
  \/ NumberedCI(s, "2", <<"m","e","t","h","o","d">>)

\* r'(?i)^(results?|3\.\s*results?)'
re_results(s) ==
  \/ StartsWithCI(s, <<"r","e","s","u","l","t">>)
  \/ NumberedCI(s, "3", <<"r","e","s","u","l","t">>)

\* r'(?i)^(conclusion|conclusions?|4\.\s*conclusion)'
re_conclusion(s) ==
  \/ StartsWithCI(s, <<"c","o","n","c","l","u","s","i","o","n">>)
  \/ NumberedCI(s, "4", <<"c","o","n","c","l","u","s","i","o","n">>)

\* r'(?i)^(references?|bibliography)'
re_references(s) ==
  \/ StartsWithCI(s, <<"r","e","f","e","r","e","n","c","e">>)
  \/ StartsWithCI(s, <<"b","i","b","l","i","o","g","r","a","p","h","y">>)

\* r'^\d+\.?\s+[A-Z]'
re_section(s) ==
  LET nd == LeadCount(s, Digit)
      r1 == Drop(s, nd)
      r2 == IF r1 # <<>> /\ r1[1] = "." THEN Tail(r1) ELSE r1
      nw == LeadCount(r2, Whitespace)
      r3 == Drop(r2, nw)
  IN  nd >= 1 /\ nw >= 1 /\ r3 # <<>> /\ r3[1] \in Upper

\* r'^\d+\.'
re_numbered(s) ==
  LET nd == LeadCount(s, Digit)
  IN  nd >= 1 /\ Len(s) > nd /\ s[nd + 1] = "."

\* r'(?i)^(introduction|1\.)'
re_intro_or_one(s) ==
  \/ StartsWithCI(s, <<"i","n","t","r","o","d","u","c","t","i","o","n">>)
  \/ StartsWith(s, <<"1", ".">>)

\* r'(?i)^(keywords?|key\s+words?)'
re_keywords(s) ==
  \/ StartsWithCI(s, <<"k","e","y","w","o","r","d">>)
  \/ /\ StartsWithCI(s, <<"k","e","y">>)
     /\ LET rest == Drop(s, 3)
            nw == LeadCount(rest, Whitespace)
        IN  nw >= 1 /\ StartsWithCI(Drop(rest, nw), <<"w","o","r","d">>)

\* ------------------------------------------------------ DocumentProcessor

VARIABLES
  self_section_patterns   \* self.section_patterns of the DocumentProcessor

\* Variant of section_patterns: the generic rule is inserted before the
\* methodology rule.
section_patterns_generic_early ==
  <<"title", "abstract", "introduction", "section", "methodology", "results",
    "conclusion", "references">>

\* The keys of self.section_patterns in insertion order, the order in which
\* dict.items() yields them.
section_patterns ==
  <<"title", "abstract", "introduction", "methodology", "results",
    "conclusion", "references", "section">>

\* re.search(self.section_patterns[key], line)
re_search(key, line) ==
  CASE key = "title" -> re_title(line)
    [] key = "abstract" -> re_abstract(line)
    [] key = "introduction" -> re_introduction(line)
    [] key = "methodology" -> re_methodology(line)
    [] key = "results" -> re_results(line)
    [] key = "conclusion" -> re_conclusion(line)
    [] key = "references" -> re_references(line)
    [] key = "section" -> re_section(line)

\* Variant of identify_from: the loop does not return at the first match and
\* the last matching pattern wins.
RECURSIVE identify_from_last_match(_, _)
identify_from_last_match(k, line) ==
  IF k > Len(self_section_patterns) THEN None
  ELSE IF identify_from_last_match(k + 1, line) # None
       THEN identify_from_last_match(k + 1, line)
  ELSE IF re_search(self_section_patterns[k], line) THEN Some(self_section_patterns[k])
  ELSE None

\* The for loop of _identify_section_type from the k-th pattern on; the
\* patterns are read from the object (self.section_patterns).
RECURSIVE identify_from(_, _)
identify_from(k, line) ==
  IF k > Len(self_section_patterns) THEN None
  ELSE IF re_search(self_section_patterns[k], line) THEN Some(self_section_patterns[k])
  ELSE identify_from(k + 1, line)

identify_section_type(line) == identify_from(1, line)

TitleScanLines == 10
TitleMinLen == 10
TitleMaxLen == 200
TitleStopWords ==
  { <<"a","b","s","t","r","a","c","t">>,
    <<"i","n","t","r","o","d","u","c","t","i","o","n">>,
    <<"p","a","g","e">>,
    <<"d","o","i">> }
UntitledDocument == <<"U","n","t","i","t","l","e","d"," ","D","o","c","u","m","e","n","t">>

\* The body of the for loop of _extract_title for one line: Some(stripped
\* line) when the line is returned, None when the loop goes on.
title_candidate(raw) ==
  LET line == Strip(raw)
  IN  IF Len(line) > TitleMinLen /\ Len(line) < TitleMaxLen
         /\ ~ \E w \in TitleStopWords : Contains(Lower(line), w)
      THEN Some(line)
      ELSE None

\* Variant of title_scan: the fallback after the loop is the empty string.
RECURSIVE title_scan_no_fallback(_, _)
title_scan_no_fallback(lines, k) ==
  IF k > Len(lines) THEN <<>>
  ELSE IF title_candidate(lines[k]) # None THEN title_candidate(lines[k])[1]
  ELSE title_scan_no_fallback(lines, k + 1)

\* The for loop of _extract_title from the k-th of the lines it is given, and
\* the fallback after it.
RECURSIVE title_scan(_, _)
title_scan(lines, k) ==
  IF k > Len(lines) THEN UntitledDocument
  ELSE IF title_candidate(lines[k]) # None THEN title_candidate(lines[k])[1]
  ELSE title_scan(lines, k + 1)

\* Variant of extract_title: every line of the text is scanned.
extract_title_all_lines(text) == title_scan(Split(text), 1)

extract_title(text) == title_scan(Slice(Split(text), 0, TitleScanLines), 1)

AbstractWindow == 10
AbstractMinLen == 50

\* Python truthiness of an Optional[int]: None and 0 are falsy.
TruthyInt(opt) == opt # None /\ opt[1] # 0

\* The for loop of _extract_abstract from 0-based index i on, with the value
\* abstract_start has when the iteration begins; yields both locals as they
\* are when the loop ends or breaks.
RECURSIVE abstract_scan(_, _, _)
abstract_scan(lines, i, start) ==
  IF i >= Len(lines) THEN [abstract_start |-> start, abstract_end |-> None]
  ELSE IF re_abstract(lines[i + 1]) THEN abstract_scan(lines, i + 1, Some(i + 1))
  ELSE IF TruthyInt(start) /\ ( \/ re_numbered(lines[i + 1])
                                \/ re_intro_or_one(lines[i + 1])
                                \/ re_keywords(lines[i + 1]) )
       THEN [abstract_start |-> start, abstract_end |-> Some(i)]
  ELSE abstract_scan(lines, i + 1, start)

\* Variant of abstract_result: a text of exactly AbstractMinLen characters is
\* returned too.
abstract_result_at_least(lines, start, end) ==
  IF TruthyInt(start)
  THEN LET abstract_lines == IF TruthyInt(end)
                             THEN Slice(lines, start[1], end[1])
                             ELSE Slice(lines, start[1], start[1] + AbstractWindow)
           abstract_text == Strip(Join(<<" ">>, abstract_lines))
       IN  IF Len(abstract_text) >= AbstractMinLen THEN Some(abstract_text) ELSE None
  ELSE None

\* Lines 93-99 of _extract_abstract: the text returned for the given locals.
abstract_result(lines, start, end) ==
  IF TruthyInt(start)
  THEN LET abstract_lines == IF TruthyInt(end)
                             THEN Slice(lines, start[1], end[1])
                             ELSE Slice(lines, start[1], start[1] + AbstractWindow)
           abstract_text == Strip(Join(<<" ">>, abstract_lines))
       IN  IF Len(abstract_text) > AbstractMinLen THEN Some(abstract_text) ELSE None
  ELSE None

extract_abstract(text) ==
  LET lines == Split(text)
      sc == abstract_scan(lines, 0, None)
  IN  abstract_result(lines, sc.abstract_start, sc.abstract_end)

DocumentSection(t, c, p, ty) ==
  [title |-> t, content |-> c, page_number |-> p, section_type |-> ty]

\* Variant of PageContentTitle: the 0-based page index is formatted.
PageContentTitle_zero_based(page_number) ==
  <<"P","a","g","e"," ">> \o Str(page_number - 1) \o <<" ","C","o","n","t","e","n","t">>

\* f"Page {page_number} Content"
PageContentTitle(page_number) ==
  <<"P","a","g","e"," ">> \o Str(page_number) \o <<" ","C","o","n","t","e","n","t">>

\* The record appended when a section is saved (lines 119-124 and 147-152).
SavedSection(st, page_number) ==
  DocumentSection(st.current_section[1],
                  Strip(Join(<<" ">>, st.current_content)),
                  page_number, "section")

\* The locals of _extract_sections before the loop (lines 103-106);
\* section_type is unbound until the first non-blank line and is held as None.
sections_locals ==
  [sections |-> <<>>, current_section |-> None, current_content |-> <<>>,
   section_type |-> None]

\* Variant of is_blank: the line is tested before it is stripped.
is_blank_unstripped(raw) == raw = <<>>

\* Line 110: the stripped line is empty and the loop continues.
is_blank(raw) == Strip(raw) = <<>>

\* Line 116: the line is a heading of a named type.
is_named(section_type) == section_type # None /\ section_type # Some("section")

\* Variant of close_previous: the open section is saved only when it has
\* content, the condition of the save at the end of the page.
close_previous_if_content(st, page_number) ==
  IF Truthy(st.current_section) /\ st.current_content # <<>>
  THEN Append(st.sections, SavedSection(st, page_number))
  ELSE st.sections

\* Lines 118-124: the open section, if any, is saved before a heading opens
\* the next one.
close_previous(st, page_number) ==
  IF Truthy(st.current_section)
  THEN Append(st.sections, SavedSection(st, page_number))
  ELSE st.sections

\* Variant of open_section: the heading becomes the open section and no
\* record of its own is appended.
open_section_no_record(secs, line, section_type, page_number) ==
  [sections |-> secs,
   current_section |-> Some(line),
   current_content |-> <<>>,
   section_type |-> section_type]

\* Lines 127-134: the heading becomes the open section and its own record is
\* appended with empty content and the detected type.
open_section(secs, line, section_type, page_number) ==
  [sections |-> Append(secs, DocumentSection(line, <<>>, page_number, section_type[1])),
   current_section |-> Some(line),
   current_content |-> <<>>,
   section_type |-> section_type]

\* Variant of add_content: a line of the generic type retitles the open section.
add_content_retitles(st, line, section_type, page_number) ==
  IF Truthy(st.current_section) /\ section_type = None
  THEN [st EXCEPT !.current_content = Append(@, line),
                  !.section_type = section_type]
  ELSE [st EXCEPT !.current_section =
                    IF Truthy(st.current_section) THEN Some(line)
                    ELSE Some(PageContentTitle(page_number)),
                  !.current_content = Append(@, line),
                  !.section_type = section_type]

\* Lines 137-143: the line is added to the open section; with none open, one
\* titled "Page {page_number} Content" is opened first.
add_content(st, line, section_type, page_number) ==
  IF Truthy(st.current_section)
  THEN [st EXCEPT !.current_content = Append(@, line),
                  !.section_type = section_type]
  ELSE [st EXCEPT !.current_section = Some(PageContentTitle(page_number)),
                  !.current_content = Append(@, line),
                  !.section_type = section_type]

\* One iteration of the for loop of _extract_sections (lines 108-143) on the
\* raw line, from locals st to the locals after it.
loop_body(st, raw, page_number) ==
  LET line == Strip(raw)
      section_type == identify_section_type(line)
  IN  IF is_blank(raw) THEN st
      ELSE IF is_named(section_type)
      THEN open_section(close_previous(st, page_number), line, section_type, page_number)
      ELSE add_content(st, line, section_type, page_number)

\* Variant of save_last: the section still open at the end is not saved.
save_last_dropped(st, page_number) == st.sections

\* Lines 145-154: the last section is saved and the list returned.
save_last(st, page_number) ==
  IF Truthy(st.current_section) /\ st.current_content # <<>>
  THEN Append(st.sections, SavedSection(st, page_number))
  ELSE st.sections

\* The locals after the first k lines.
RECURSIVE locals_after(_, _, _)
locals_after(lines, k, page_number) ==
  IF k = 0 THEN sections_locals
  ELSE loop_body(locals_after(lines, k - 1, page_number), lines[k], page_number)

extract_sections(text, page_number) ==
  LET lines == Split(text)
  IN  save_last(locals_after(lines, Len(lines), page_number), page_number)

\* str.replace(sub, '') : every non-overlapping occurrence of sub, taken from
\* the left, is removed.
RECURSIVE RemoveAll(_, _)
RemoveAll(s, sub) ==
  IF Len(s) < Len(sub) \/ sub = <<>> THEN s
  ELSE IF SubSeq(s, 1, Len(sub)) = sub THEN RemoveAll(Drop(s, Len(sub)), sub)
  ELSE <<s[1]>> \o RemoveAll(Tail(s), sub)

\* ".pdf"
DotPdf == <<".","p","d","f">>
\* "Error processing document: "
ErrorProcessingDocument == <<"E","r","r","o","r"," ","p","r","o","c","e","s","s","i","n","g"," ","d","o","c","u","m","e","n","t",":"," ">>

\* DocumentInfo as process_document builds it (lines 48-61); upload_time and
\* the processing_time of metadata are clock readings and are left out.
DocumentInfo(file_id, filename, file_path, title, abstract, sections, page_count) ==
  [file_id |-> file_id, filename |-> filename, file_path |-> file_path,
   title |-> title, abstract |-> abstract, sections |-> sections,
   page_count |-> page_count,
   metadata |-> [total_sections |-> Len(sections),
                 has_abstract |-> abstract # None]]

\* The frame of process_document when no call is running.
NoDocumentFrame ==
  [pc |-> "idle", doc |-> <<>>, file_path |-> <<>>, filename |-> <<>>,
   sections |-> <<>>, title |-> <<>>, abstract |-> None, page_count |-> 0,
   page_num |-> 0, ret |-> None]

\* Lines 24-28: the frame of process_document once fitz.open has returned
\* the document, a sequence of page texts.
open_document(pages, file_path, filename) ==
  [pc |-> "pages", doc |-> pages, file_path |-> file_path, filename |-> filename,
   sections |-> <<>>, title |-> RemoveAll(filename, DotPdf), abstract |-> None,
   page_count |-> Len(pages), page_num |-> 0, ret |-> None]

\* Variant of process_page: the 0-based page index is passed on.
process_page_zero_based(fr) ==
  LET text == fr.doc[fr.page_num + 1]
  IN  [fr EXCEPT
         !.title = IF fr.page_num = 0 THEN extract_title(text) ELSE @,
         !.abstract = IF fr.page_num = 0 /\ ~ Truthy(fr.abstract)
                      THEN extract_abstract(text) ELSE @,
         !.sections = @ \o extract_sections(text, fr.page_num),
         !.page_num = @ + 1]

\* Variant of process_page: body text at the top of a page that follows no
\* heading of its page continues the last section of the pages before.
process_page_carries_over(fr) ==
  LET text == fr.doc[fr.page_num + 1]
      page_sections == extract_sections(text, fr.page_num + 1)
      n == Len(fr.sections)
  IN  [fr EXCEPT
         !.title = IF fr.page_num = 0 THEN extract_title(text) ELSE @,
         !.abstract = IF fr.page_num = 0 /\ ~ Truthy(fr.abstract)
                      THEN extract_abstract(text) ELSE @,
         !.sections =
            IF /\ n > 0
               /\ page_sections # <<>>
               /\ page_sections[1].title = PageContentTitle(fr.page_num + 1)
            THEN [fr.sections EXCEPT
                    ![n].content = @ \o <<" ">> \o page_sections[1].content]
                 \o Tail(page_sections)
            ELSE fr.sections \o page_sections,
         !.page_num = @ + 1]

\* One iteration of the page loop of process_document (lines 30-44), on the
\* page of 0-based index fr.page_num.
process_page(fr) ==
  LET text == fr.doc[fr.page_num + 1]
  IN  [fr EXCEPT
         !.title = IF fr.page_num = 0 THEN extract_title(text) ELSE @,
         !.abstract = IF fr.page_num = 0 /\ ~ Truthy(fr.abstract)
                      THEN extract_abstract(text) ELSE @,
         !.sections = @ \o extract_sections(text, fr.page_num + 1),
         !.page_num = @ + 1]

\* The page loop from the frame fr to its end.
RECURSIVE process_pages(_)
process_pages(fr) ==
  IF fr.page_num = fr.page_count THEN fr ELSE process_pages(process_page(fr))

\* Lines 48-61: the DocumentInfo returned, file_id still empty.
document_info(fr) ==
  DocumentInfo(<<>>, fr.filename, fr.file_path, fr.title, fr.abstract,
               fr.sections, fr.page_count)

\* Line 64: the exception raised in place of the one caught.
processing_error(cause) == ErrorProcessingDocument \o cause

\* process_document(file_path, filename) as a whole, on the file stored at
\* file_path: a record with raised = TRUE and the message of the exception,
\* or raised = FALSE and the DocumentInfo.
process_document(file, file_path, filename) ==
  IF file.valid
  THEN [raised |-> FALSE,
        value |-> document_info(process_pages(open_document(file.pages, file_path, filename)))]
  ELSE [raised |-> TRUE, value |-> processing_error(file.error)]

\* ------------------------------------------------------------- RAGSystem

\* s.endswith(suffix)
EndsWith(s, suffix) ==
  Len(s) >= Len(suffix) /\ SubSeq(s, Len(s) - Len(suffix) + 1, Len(s)) = suffix

\* A dict with the entry k: v set, and with the entry of k deleted.
Put(d, k, v) == [x \in DOMAIN d \cup {k} |-> IF x = k THEN v ELSE d[x]]
Remove(d, k) == [x \in DOMAIN d \ {k} |-> d[x]]

\* "_section_"
SectionInfix == <<"_","s","e","c","t","i","o","n","_">>
\* "_abstract"
AbstractSuffix == <<"_","a","b","s","t","r","a","c","t">>
\* "Abstract"
AbstractTitle == <<"A","b","s","t","r","a","c","t">>
\* "Error adding document to vector database: "
ErrorAddingDocument == <<"E","r","r","o","r"," ","a","d","d","i","n","g"," ","d","o","c","u","m","e","n","t"," ","t","o"," ","v","e","c","t","o","r"," ","d","a","t","a","b","a","s","e",":"," ">>

\* The metadata dict of an index entry (lines 56-64 and 71-79).
entry_metadata(doc_info, section_title, section_type, page_number) ==
  [file_id |-> doc_info.file_id, filename |-> doc_info.filename,
   title |-> doc_info.title, section_title |-> section_title,
   section_type |-> section_type, page_number |-> page_number,
   document_title |-> doc_info.title]

\* Lines 54-65: the index entry of the section at position i (0-based) of
\* doc_info.sections.
section_entry(doc_info, i) ==
  LET section == doc_info.sections[i + 1]
  IN  [id |-> doc_info.file_id \o SectionInfix \o Str(i),
       document |-> section.content,
       metadata |-> entry_metadata(doc_info, section.title, section.section_type,
                                   section.page_number)]

\* Lines 69-80: the index entry of the abstract.
abstract_entry(doc_info) ==
  [id |-> doc_info.file_id \o AbstractSuffix,
   document |-> doc_info.abstract[1],
   metadata |-> entry_metadata(doc_info, AbstractTitle, "abstract", 1)]

\* Variant of indexed_positions: no section is skipped.
indexed_positions_all(secs) == [i \in 1..Len(secs) |-> i - 1]

\* Lines 52-53: the positions i (0-based) of the sections that pass
\* "if section.content.strip()", in order.
indexed_positions(secs) ==
  LET HasText(i) == Strip(secs[i + 1].content) # <<>>
  IN  SelectSeq([i \in 1..Len(secs) |-> i - 1], HasText)

\* Variant of index_entries: the sections that are not skipped are numbered
\* consecutively.
index_entries_renumbered(doc_info) ==
  LET pos == indexed_positions(doc_info.sections)
      renumbered(k) == [section_entry(doc_info, pos[k]) EXCEPT
                          !.id = doc_info.file_id \o SectionInfix \o Str(k - 1)]
  IN  [k \in 1..Len(pos) |-> renumbered(k)]
      \o (IF doc_info.abstract # None /\ doc_info.abstract[1] # <<>>
          THEN <<abstract_entry(doc_info)>> ELSE <<>>)

\* Lines 47-80: the entries add_document prepares (ids, documents and
\* metadatas side by side), in the order of the lists.
index_entries(doc_info) ==
  LET pos == indexed_positions(doc_info.sections)
  IN  [k \in 1..Len(pos) |-> section_entry(doc_info, pos[k])]
      \o (IF doc_info.abstract # None /\ doc_info.abstract[1] # <<>>
          THEN <<abstract_entry(doc_info)>> ELSE <<>>)

\* The elements of a list, as a set.
Elements(list) == {list[k] : k \in 1..Len(list)}

\* add_document(doc_info) as a whole on the collection: when encoding or
\* collection.add raises with the message cause, the collection is as it was
\* and the exception of line 95 is raised; otherwise the entries are added.
add_document(collection, doc_info, cause) ==
  IF cause # None
  THEN [raised |-> TRUE, value |-> ErrorAddingDocument \o cause[1],
        collection |-> collection]
  ELSE [raised |-> FALSE, value |-> None,
        collection |-> collection \cup Elements(index_entries(doc_info))]

\* remove_document(file_id) as a whole on the collection: when
\* collection.get or collection.delete raises, the exception is printed and
\* the collection is as it was (lines 104-105); otherwise the entries whose
\* metadata names file_id are deleted.
remove_document(collection, file_id, cause) ==
  IF cause # None THEN collection
  ELSE {e \in collection : e.metadata.file_id # file_id}

\* ------------------------------------------------------------------ main

MaxFilesPerRequest == 5

\* "uploads/"
UploadsDir == <<"u","p","l","o","a","d","s","/">>
\* "Maximum 5 files allowed"
MaximumFilesAllowed == <<"M","a","x","i","m","u","m"," ","5"," ","f","i","l","e","s"," ","a","l","l","o","w","e","d">>
\* "Only PDF files are allowed"
OnlyPdfAllowed == <<"O","n","l","y"," ","P","D","F"," ","f","i","l","e","s"," ","a","r","e"," ","a","l","l","o","w","e","d">>
\* "Error processing "
ErrorProcessing == <<"E","r","r","o","r"," ","p","r","o","c","e","s","s","i","n","g"," ">>
\* "Document not found"
DocumentNotFound == <<"D","o","c","u","m","e","n","t"," ","n","o","t"," ","f","o","u","n","d">>
\* "Document deleted successfully"
DocumentDeleted == <<"D","o","c","u","m","e","n","t"," ","d","e","l","e","t","e","d"," ","s","u","c","c","e","s","s","f","u","l","l","y">>
\* "Successfully processed "
SuccessfullyProcessed == <<"S","u","c","c","e","s","s","f","u","l","l","y"," ","p","r","o","c","e","s","s","e","d"," ">>
\* " documents"
DocumentsWord == <<" ","d","o","c","u","m","e","n","t","s">>

\* str(uuid.uuid4()) for the n-th identifier drawn: identifiers drawn at
\* different times differ.
Uuid(n) == <<"u","u","i","d","-">> \o Str(n)

\* f"uploads/{file_id}_{file.filename}"
UploadPath(file_id, filename) == UploadsDir \o file_id \o <<"_">> \o filename

\* The frame of a request handler when no request is being served.
NoRequest ==
  [pc |-> "idle", handler |-> "none", files |-> <<>>, processed_docs |-> <<>>,
   file_id |-> <<>>, file_path |-> <<>>, response |-> None]

\* raise HTTPException(status_code, detail), and a returned message.
HTTPException(fr, status_code, detail) ==
  [fr EXCEPT !.pc = "raised",
             !.response = Some([status_code |-> status_code, detail |-> detail])]
Returns(fr, message) ==
  [fr EXCEPT !.pc = "returned",
             !.response = Some([status_code |-> 200, detail |-> message])]

\* Variant of too_many_files: one more file is let through.
too_many_files_lenient(files) == Len(files) > MaxFilesPerRequest + 1

\* Line 63: len(files) > 5
too_many_files(files) == Len(files) > MaxFilesPerRequest

\* Lines 63-66: upload_documents(files) up to the loop.
upload_documents_call(files) ==
  LET fr == [NoRequest EXCEPT !.handler = "upload_documents", !.files = files]
  IN  IF too_many_files(files)
      THEN HTTPException(fr, 400, MaximumFilesAllowed)
      ELSE [fr EXCEPT !.pc = "loop"]

\* Lines 102-108: the except clause; the saved file is removed and the error
\* is turned into the response.
upload_except(w, fr, file, file_id, file_path, e) ==
  [w |-> [w EXCEPT !.uploads = Remove(@, file_path), !.uuids = @ + 1],
   fr |-> HTTPException([fr EXCEPT !.file_id = file_id, !.file_path = file_path],
                        500, ErrorProcessing \o file.filename \o <<":"," ">> \o e)]

\* Lines 91-98: the document is registered and reported.
upload_register(w, fr, file, doc_info, collection) ==
  [w |-> [uploaded_documents |-> Put(w.uploaded_documents, doc_info.file_id, doc_info),
          collection |-> collection,
          uploads |-> w.uploads,
          uuids |-> w.uuids + 1],
   fr |-> [fr EXCEPT
             !.file_id = doc_info.file_id,
             !.file_path = doc_info.file_path,
             !.processed_docs =
                Append(@, [file_id |-> doc_info.file_id, filename |-> file.filename,
                           title |-> doc_info.title,
                           sections |-> Len(doc_info.sections),
                           pages |-> doc_info.page_count])]]

\* Variant of upload_file: the document is registered before it is indexed,
\* and the except clause leaves the saved file.
upload_file_registers_first(w, fr, cause) ==
  LET file == fr.files[Len(fr.processed_docs) + 1]
      file_id == Uuid(w.uuids + 1)
      file_path == UploadPath(file_id, file.filename)
      saved == [w EXCEPT !.uploads = Put(@, file_path, file.content)]
      processed == process_document(saved.uploads[file_path], file_path, file.filename)
      doc_info == [processed.value EXCEPT !.file_id = file_id, !.file_path = file_path]
      added == add_document(w.collection, doc_info, cause)
      failed(msg) ==
        [w |-> [saved EXCEPT !.uuids = @ + 1],
         fr |-> HTTPException([fr EXCEPT !.file_id = file_id, !.file_path = file_path],
                              500, ErrorProcessing \o file.filename \o <<":"," ">> \o msg)]
  IN  IF ~ EndsWith(file.filename, DotPdf)
      THEN [w |-> w, fr |-> HTTPException(fr, 400, OnlyPdfAllowed)]
      ELSE IF processed.raised
      THEN failed(processed.value)
      ELSE IF added.raised
      THEN [failed(added.value) EXCEPT
              !.w.uploaded_documents = Put(@, file_id, doc_info)]
      ELSE upload_register(saved, fr, file, doc_info, added.collection)

\* Lines 67-108: one iteration of the loop of upload_documents, on the file
\* that follows the files processed so far; cause is the message of the
\* exception the index raises in add_document, None when it raises none.
upload_file(w, fr, cause) ==
  LET file == fr.files[Len(fr.processed_docs) + 1]
      file_id == Uuid(w.uuids + 1)
      file_path == UploadPath(file_id, file.filename)
      saved == [w EXCEPT !.uploads = Put(@, file_path, file.content)]
      processed == process_document(saved.uploads[file_path], file_path, file.filename)
      doc_info == [processed.value EXCEPT !.file_id = file_id, !.file_path = file_path]
      added == add_document(w.collection, doc_info, cause)
  IN  IF ~ EndsWith(file.filename, DotPdf)
      THEN [w |-> w, fr |-> HTTPException(fr, 400, OnlyPdfAllowed)]
      ELSE IF processed.raised
      THEN upload_except(saved, fr, file, file_id, file_path, processed.value)
      ELSE IF added.raised
      THEN upload_except(saved, fr, file, file_id, file_path, added.value)
      ELSE upload_register(saved, fr, file, doc_info, added.collection)

\* Line 110: the response after the loop.
upload_documents_return(fr) ==
  Returns(fr, SuccessfullyProcessed \o Str(Len(fr.processed_docs)) \o DocumentsWord)

\* delete_document(file_id) as a whole (lines 160-178); cause is the message
\* of the exception the index raises in remove_document, None when it raises
\* none.
delete_document(w, file_id, cause) ==
  LET fr == [NoRequest EXCEPT !.handler = "delete_document", !.file_id = file_id]
  IN  IF file_id \notin DOMAIN w.uploaded_documents
      THEN [w |-> w, fr |-> HTTPException(fr, 404, DocumentNotFound)]
      ELSE LET doc_info == w.uploaded_documents[file_id]
           IN  [w |-> [uploaded_documents |-> Remove(w.uploaded_documents, file_id),
                       collection |-> remove_document(w.collection, file_id, cause),
                       uploads |-> Remove(w.uploads, doc_info.file_path),
                       uuids |-> w.uuids],
                fr |-> Returns([fr EXCEPT !.file_path = doc_info.file_path],
                               DocumentDeleted)]

\* ------------------------------------------------------------------ inputs

MaxPageLines == 3
MaxPage == 12
MaxTitlePrefix == 11
MaxAbstractFill == 11
MaxHeldLines == 2
MaxDocPages == 2
MaxRequestFiles == 3
MaxUploads == 2

\* "A Study of Widgets"
LineStudy == <<"A"," ","S","t","u","d","y"," ","o","f"," ","W","i","d","g","e","t","s">>
\* "Abstract"
LineAbstractCap == <<"A","b","s","t","r","a","c","t">>
\* "Abstract."
LineAbstractDot == <<"A","b","s","t","r","a","c","t",".">>
\* "abstract"
LineAbstract == <<"a","b","s","t","r","a","c","t">>
\* "summary: x."
LineSummary == <<"s","u","m","m","a","r","y",":"," ","x",".">>
\* "introduction"
LineIntroduction == <<"i","n","t","r","o","d","u","c","t","i","o","n">>
\* "1. Introduction"
LineIntroNumbered == <<"1","."," ","I","n","t","r","o","d","u","c","t","i","o","n">>
\* "1. Intro"
LineIntroShort == <<"1","."," ","I","n","t","r","o">>
\* "2. Methodology"
LineMethodology == <<"2","."," ","M","e","t","h","o","d","o","l","o","g","y">>
\* "2.\tmethods"
LineMethodTab == <<"2",".","\t","m","e","t","h","o","d","s">>
\* "methods."
LineMethods == <<"m","e","t","h","o","d","s",".">>
\* "3. Results"
LineResultsNumbered == <<"3","."," ","R","e","s","u","l","t","s">>
\* "results"
LineResults == <<"r","e","s","u","l","t","s">>
\* "4.conclusions"
LineConclusionNumbered == <<"4",".","c","o","n","c","l","u","s","i","o","n","s">>
\* "conclusion."
LineConclusion == <<"c","o","n","c","l","u","s","i","o","n",".">>
\* "references"
LineReferences == <<"r","e","f","e","r","e","n","c","e","s">>
\* "bibliography."
LineBibliography == <<"b","i","b","l","i","o","g","r","a","p","h","y",".">>
\* "3 Discussion"
LineDiscussion == <<"3"," ","D","i","s","c","u","s","s","i","o","n">>
\* "12.  Discussion"
LineDiscussionDot == <<"1","2","."," "," ","D","i","s","c","u","s","s","i","o","n">>
\* "5.Discussion"
LineNoSpace == <<"5",".","D","i","s","c","u","s","s","i","o","n">>
\* "3 discussion"
LineLowerNumbered == <<"3"," ","d","i","s","c","u","s","s","i","o","n">>
\* "some text."
LineBody == <<"s","o","m","e"," ","t","e","x","t",".">>
\* "Is this a title?"
LineQuestion == <<"I","s"," ","t","h","i","s"," ","a"," ","t","i","t","l","e","?">>
\* " abstract"
LineLeadingSpace == <<" ","a","b","s","t","r","a","c","t">>
\* " padded text. "
LinePadded == <<" ","p","a","d","d","e","d"," ","t","e","x","t","."," ">>
\* " \t"
LineBlank == <<" ","\t">>
\* "Second candidate"
TitleSecond == <<"S","e","c","o","n","d"," ","c","a","n","d","i","d","a","t","e">>
\* "  Padded title line \t"
TitlePadded == <<" "," ","P","a","d","d","e","d"," ","t","i","t","l","e"," ","l","i","n","e"," ","\t">>
\* "An Introduction to X"
TitleIntro == <<"A","n"," ","I","n","t","r","o","d","u","c","t","i","o","n"," ","t","o"," ","X">>
\* "DOI: 10.1/x"
TitleDoi == <<"D","O","I",":"," ","1","0",".","1","/","x">>
\* "0123456789"
TitleLen10 == <<"0","1","2","3","4","5","6","7","8","9">>
\* "0123456789a"
TitleLen11 == <<"0","1","2","3","4","5","6","7","8","9","a">>
\* "   short    "
TitlePaddedShort == <<" "," "," ","s","h","o","r","t"," "," "," "," ">>
\* "x"
FillShort == <<"x">>
\* "see Page 3"
FillPage == <<"s","e","e"," ","P","a","g","e"," ","3">>
\* "Summary: x"
AbsSummary == <<"S","u","m","m","a","r","y",":"," ","x">>
\* "Keywords: a"
AbsKeywords == <<"K","e","y","w","o","r","d","s",":"," ","a">>
\* "key  Words"
AbsKeyWords == <<"k","e","y"," "," ","W","o","r","d","s">>
\* "12. Foo"
AbsNumbered == <<"1","2","."," ","F","o","o">>
\* "text"
AbsFill == <<"t","e","x","t">>
\* "This body line is exactly fifty characters long ok"
AbsBody50 == <<"T","h","i","s"," ","b","o","d","y"," ","l","i","n","e"," ","i","s"," ","e","x","a","c","t","l","y"," ","f","i","f","t","y"," ","c","h","a","r","a","c","t","e","r","s"," ","l","o","n","g"," ","o","k">>
\* "This body line is exactly fifty-one characters long"
AbsBody51 == <<"T","h","i","s"," ","b","o","d","y"," ","l","i","n","e"," ","i","s"," ","e","x","a","c","t","l","y"," ","f","i","f","t","y","-","o","n","e"," ","c","h","a","r","a","c","t","e","r","s"," ","l","o","n","g">>

\* n copies of the line l
Rep(l, n) == [i \in 1..n |-> l]

\* The sequences over S of length at most 2
Tails(S) == {<<>>} \cup {<<a>> : a \in S} \cup {<<a, b>> : a \in S, b \in S}

\* The lines _identify_section_type is called on.
IdentifyLines ==
  { <<>>, LineStudy, LineAbstractCap, LineAbstractDot, LineAbstract, LineSummary,
    LineIntroduction, LineIntroNumbered, LineIntroShort, LineMethodology,
    LineMethodTab, LineMethods, LineResultsNumbered, LineResults,
    LineConclusionNumbered, LineConclusion, LineReferences, LineBibliography,
    LineDiscussion, LineDiscussionDot, LineNoSpace, LineLowerNumbered, LineBody,
    LineQuestion, LineLeadingSpace, LinePadded, LineBlank }

\* The page texts _extract_sections is called on: up to MaxPageLines lines.
PageLines ==
  { <<>>, LineBlank, LineAbstract, LineLeadingSpace, LineMethodology, LineBody,
    LinePadded, LineDiscussion }
PageTexts ==
  { Join(<<NL>>, ls) : ls \in UNION { [1..k -> PageLines] : k \in 0..MaxPageLines } }
PageNumbers == {1, MaxPage}

\* Page texts of the calls made while an earlier result is held.
BetweenTexts ==
  { <<>>, LineDiscussion, Join(<<NL>>, <<LineAbstract, LineBody>>) }

\* The first-page texts _extract_title is called on: a run of lines that do
\* not qualify (none, one, or about TitleScanLines of them, up to
\* MaxTitlePrefix), then up to two lines of TitleLines.
TitleLines ==
  { LineStudy, TitleSecond, TitlePadded, TitleIntro, TitleDoi, TitleLen10,
    TitleLen11, TitlePaddedShort, Rep("x", TitleMaxLen - 1), Rep("x", TitleMaxLen) }
TitlePrefixes == {0, 1} \cup {p \in 0..MaxTitlePrefix : p >= TitleScanLines - 2}
TitleTexts ==
  { Join(<<NL>>, Rep(f, p) \o t) :
      f \in {FillShort, FillPage}, p \in TitlePrefixes, t \in Tails(TitleLines) }

\* The first-page texts _extract_abstract is called on: up to two lines of
\* AbstractLines, a run of short body lines (none, one, or about
\* AbstractWindow of them, up to MaxAbstractFill), and up to one more line of
\* AbstractLines.
AbstractLines ==
  { LineAbstractCap, AbsSummary, LineLeadingSpace, AbsKeywords, AbsKeyWords,
    LineIntroNumbered, LineIntroduction, AbsNumbered, AbsBody50, AbsBody51,
    LineBlank }
AbstractFills == {0, 1} \cup {k \in 0..MaxAbstractFill : k >= AbstractWindow - 1}
AbstractTexts ==
  { Join(<<NL>>, a \o Rep(AbsFill, k) \o b) :
      a \in Tails(AbstractLines), k \in AbstractFills,
      b \in {t \in Tails(AbstractLines) : Len(t) <= 1} }

\* The page texts of the documents process_document is called on.
\* A first page with a title line, an abstract and an introduction.
PageFront ==
  Join(<<NL>>, <<LineStudy, LineAbstractCap, AbsBody51, LineIntroNumbered, LineBody>>)
\* Body text only.
PageBody == Join(<<NL>>, <<LineBody, LinePadded>>)
\* Body text, then a heading that ends the page.
PageHeadingLast == Join(<<NL>>, <<LineBody, LineMethodology>>)
\* Headings only.
PageHeadings == Join(<<NL>>, <<LineAbstractCap, LineResultsNumbered>>)
\* A heading and its body.
PageMethod == Join(<<NL>>, <<LineMethodology, LineBody>>)
DocPageTexts ==
  { PageFront, PageBody, PageHeadingLast, PageHeadings, PageMethod, LineBlank }

\* "paper.pdf"
NamePaper == <<"p","a","p","e","r",".","p","d","f">>
\* "notes.txt"
NameNotes == <<"n","o","t","e","s",".","t","x","t">>
DocFilenames == {NamePaper, NameNotes}

\* "cannot open broken document"
FitzError == <<"c","a","n","n","o","t"," ","o","p","e","n"," ","b","r","o","k","e","n"," ","d","o","c","u","m","e","n","t">>

\* The files process_document opens: PDF files of up to MaxDocPages pages, and
\* a file fitz.open raises on.
PdfFile(pages) == [valid |-> TRUE, pages |-> pages, error |-> <<>>]
CorruptFile == [valid |-> FALSE, pages |-> <<>>, error |-> FitzError]
DocFiles ==
  {CorruptFile} \cup
  { PdfFile(ps) : ps \in UNION {[1..k -> DocPageTexts] : k \in 0..MaxDocPages} }

\* "index unavailable"
IndexError == <<"i","n","d","e","x"," ","u","n","a","v","a","i","l","a","b","l","e">>

\* The files of upload requests (UploadFile: filename and content).
UploadFile(filename, content) == [filename |-> filename, content |-> content]
\* A paper with a title, an abstract and sections on two pages.
FilePaper == UploadFile(NamePaper, PdfFile(<<PageFront, PageMethod>>))
\* A PDF with headings only: no section has content and there is no abstract.
FileHeadings == UploadFile(NamePaper, PdfFile(<<PageHeadings>>))
\* A file named .pdf that fitz cannot open.
FileBroken == UploadFile(NamePaper, CorruptFile)
\* A file whose name does not end in ".pdf".
FileNotes == UploadFile(NameNotes, PdfFile(<<PageBody>>))
UploadFiles == {FilePaper, FileHeadings, FileBroken, FileNotes}

\* The lists of files of upload requests: every list of up to
\* MaxRequestFiles files, and lists of MaxFilesPerRequest and of
\* MaxFilesPerRequest + 1 copies of one file.
UploadRequests ==
  UNION {[1..k -> UploadFiles] : k \in 0..MaxRequestFiles}
  \cup { Rep(f, n) : f \in {FilePaper, FileNotes},
                     n \in {MaxFilesPerRequest, MaxFilesPerRequest + 1} }

\* Whether the loop of upload_documents cannot get past the file: its name
\* does not end in ".pdf", or fitz cannot open it.
StopsLoop(file) == ~ EndsWith(file.filename, DotPdf) \/ ~ file.content.valid

\* The number of identifiers a request can draw: none when the request is
\* too long; else one per file up to the first file that stops the loop, that
\* file included unless it is stopped for its name.
NumSaves(files) ==
  IF too_many_files(files) THEN 0
  ELSE IF \E k \in 1..Len(files) : StopsLoop(files[k])
  THEN LET k == CHOOSE k \in 1..Len(files) :
                  StopsLoop(files[k]) /\ \A j \in 1..(k - 1) : ~ StopsLoop(files[j])
       IN  IF EndsWith(files[k].filename, DotPdf) THEN k ELSE k - 1
  ELSE Len(files)

\* ------------------------------------------------------------------- state

VARIABLES
  fn,               \* the method being run or last run
  pc,               \* "idle", "loop" (inside _extract_sections) or "done"
  text,             \* the method's string argument
  page_number,      \* _extract_sections' page_number (0 when not applicable)
  lines,            \* text.split('\n') in _extract_sections
  idx,              \* how many lines the loop of _extract_sections has taken
  section_type,     \* locals of _extract_sections
  current_section,
  current_content,
  sections,
  abstract_start,   \* locals of _extract_abstract
  abstract_end,
  ret,              \* the value returned, None until the method returns
  earlier           \* a result of _extract_sections the caller still holds,
                    \* with the arguments of its call and whether a call with
                    \* other arguments has returned since; None when none is held
VARIABLES
  pd                \* the frame of process_document: its locals, its position
                    \* pc and, once it has ended, the DocumentInfo returned or
                    \* the message of the exception raised

VARIABLES
  uploaded_documents,   \* the dict uploaded_documents of main.py
  collection,           \* the entries of the index (rag_system.collection)
  uploads,              \* the files of the uploads directory, by path
  uuids,                \* how many identifiers uuid.uuid4() has given
  req                   \* the frame of the request handler being run and,
                        \* once it has ended, its response

\* The state of the server.
server == <<uploaded_documents, collection, uploads, uuids, req>>

\* The server state the handlers work on.
World ==
  [uploaded_documents |-> uploaded_documents, collection |-> collection,
   uploads |-> uploads, uuids |-> uuids]

\* What the callers of DocumentProcessor's private methods hold.
outer_frames == <<pd, server>>

\* What the private methods of DocumentProcessor leave alone besides the object.
other_frames == <<earlier, outer_frames>>

vars ==
  <<self_section_patterns, fn, pc, text, page_number, lines, idx, section_type,
    current_section, current_content, sections, abstract_start, abstract_end,
    ret, other_frames>>

\* No call is running and no frame is live.
NoFrame ==
  /\ page_number = 0
  /\ lines = <<>>
  /\ idx = 0
  /\ section_type = None
  /\ current_section = None
  /\ current_content = <<>>
  /\ sections = <<>>
  /\ abstract_start = None
  /\ abstract_end = None

\* __init__ (lines 9-19) has run and no method has been called.
Init ==
  /\ self_section_patterns = section_patterns
  /\ fn = "none"
  /\ pc = "idle"
  /\ text = <<>>
  /\ ret = None
  /\ NoFrame
  /\ earlier = None
  /\ pd = NoDocumentFrame
  /\ uploaded_documents = <<>>
  /\ collection = {}
  /\ uploads = <<>>
  /\ uuids = 0
  /\ req = NoRequest

\* _identify_section_type(line)
IdentifySectionType ==
  /\ pc = "idle"
  /\ UNCHANGED <<self_section_patterns, other_frames>>
  /\ \E line \in IdentifyLines :
       /\ text' = line
       /\ ret' = identify_section_type(line)
  /\ fn' = "identify_section_type"
  /\ pc' = "done"
  /\ UNCHANGED <<page_number, lines, idx, section_type, current_section,
                 current_content, sections, abstract_start, abstract_end>>

\* _extract_title(text)
ExtractTitle ==
  /\ pc = "idle"
  /\ UNCHANGED <<self_section_patterns, other_frames>>
  /\ \E t \in TitleTexts :
       /\ text' = t
       /\ ret' = extract_title(t)
  /\ fn' = "extract_title"
  /\ pc' = "done"
  /\ UNCHANGED <<page_number, lines, idx, section_type, current_section,
                 current_content, sections, abstract_start, abstract_end>>

\* _extract_abstract(text)
ExtractAbstract ==
  /\ pc = "idle"
  /\ UNCHANGED <<self_section_patterns, other_frames>>
  /\ \E t \in AbstractTexts :
       LET sc == abstract_scan(Split(t), 0, None)
       IN  /\ text' = t
           /\ abstract_start' = sc.abstract_start
           /\ abstract_end' = sc.abstract_end
           /\ ret' = extract_abstract(t)
  /\ fn' = "extract_abstract"
  /\ pc' = "done"
  /\ UNCHANGED <<page_number, lines, idx, section_type, current_section,
                 current_content, sections>>

\* The page texts a caller passes: any page text while it holds no earlier
\* result, and the held call's text or one of BetweenTexts while it holds one.
SectionsCallTexts ==
  IF earlier = None THEN PageTexts ELSE {earlier[1].text} \cup BetweenTexts

\* _extract_sections(text, page_number): lines 103-106
ExtractSectionsCall ==
  /\ pc = "idle"
  /\ UNCHANGED <<self_section_patterns, other_frames>>
  /\ \E t \in SectionsCallTexts, p \in PageNumbers :
       /\ text' = t
       /\ page_number' = p
       /\ lines' = Split(t)
  /\ fn' = "extract_sections"
  /\ pc' = "loop"
  /\ idx' = 0
  /\ section_type' = sections_locals.section_type
  /\ current_section' = sections_locals.current_section
  /\ current_content' = sections_locals.current_content
  /\ sections' = sections_locals.sections
  /\ UNCHANGED <<abstract_start, abstract_end, ret>>

\* Variant of ExtractSectionsLine: the iteration moves the pattern that matched
\* the line to the front of self.section_patterns.
ExtractSectionsLine_learns ==
  /\ pc = "loop"
  /\ idx < Len(lines)
  /\ LET st == loop_body([sections |-> sections,
                          current_section |-> current_section,
                          current_content |-> current_content,
                          section_type |-> section_type],
                         lines[idx + 1], page_number)
         matched == identify_section_type(Strip(lines[idx + 1]))
         Other(k) == k # matched[1]
     IN  /\ sections' = st.sections
         /\ current_section' = st.current_section
         /\ current_content' = st.current_content
         /\ section_type' = st.section_type
         /\ self_section_patterns' =
              IF matched = None THEN self_section_patterns
              ELSE <<matched[1]>> \o SelectSeq(self_section_patterns, Other)
  /\ idx' = idx + 1
  /\ UNCHANGED <<fn, pc, text, page_number, lines, abstract_start, abstract_end, ret>>
  /\ UNCHANGED other_frames

\* _extract_sections: one iteration of the loop, lines 108-143
ExtractSectionsLine ==
  /\ pc = "loop"
  /\ UNCHANGED <<self_section_patterns, other_frames>>
  /\ idx < Len(lines)
  /\ LET st == loop_body([sections |-> sections,
                          current_section |-> current_section,
                          current_content |-> current_content,
                          section_type |-> section_type],
                         lines[idx + 1], page_number)
     IN  /\ sections' = st.sections
         /\ current_section' = st.current_section
         /\ current_content' = st.current_content
         /\ section_type' = st.section_type
  /\ idx' = idx + 1
  /\ UNCHANGED <<fn, pc, text, page_number, lines, abstract_start, abstract_end, ret>>

\* _extract_sections: lines 145-154
ExtractSectionsReturn ==
  /\ pc = "loop"
  /\ UNCHANGED <<self_section_patterns, other_frames>>
  /\ idx = Len(lines)
  /\ sections' = save_last([sections |-> sections,
                            current_section |-> current_section,
                            current_content |-> current_content,
                            section_type |-> section_type], page_number)
  /\ ret' = sections'
  /\ pc' = "done"
  /\ UNCHANGED <<fn, text, page_number, lines, idx, section_type, current_section,
                 current_content, abstract_start, abstract_end>>

\* The caller drops the returned value; the frame of the call is gone.
Discard ==
  /\ pc = "done"
  /\ UNCHANGED <<self_section_patterns, outer_frames>>
  /\ earlier' =
       IF /\ earlier # None
          /\ fn = "extract_sections"
          /\ <<text, page_number>> # <<earlier[1].text, earlier[1].page_number>>
       THEN Some([earlier[1] EXCEPT !.other_calls = TRUE])
       ELSE earlier
  /\ fn' = "none"
  /\ pc' = "idle"
  /\ text' = <<>>
  /\ ret' = None
  /\ page_number' = 0
  /\ lines' = <<>>
  /\ idx' = 0
  /\ section_type' = None
  /\ current_section' = None
  /\ current_content' = <<>>
  /\ sections' = <<>>
  /\ abstract_start' = None
  /\ abstract_end' = None

\* The caller keeps the returned list of _extract_sections together with the
\* arguments of the call; the frame of the call is gone.
KeepResult ==
  /\ pc = "done"
  /\ fn = "extract_sections"
  /\ earlier = None
  /\ Len(lines) <= MaxHeldLines
  /\ earlier' = Some([text |-> text, page_number |-> page_number, ret |-> ret,
                       other_calls |-> FALSE])
  /\ fn' = "none"
  /\ pc' = "idle"
  /\ text' = <<>>
  /\ ret' = None
  /\ page_number' = 0
  /\ lines' = <<>>
  /\ idx' = 0
  /\ section_type' = None
  /\ current_section' = None
  /\ current_content' = <<>>
  /\ sections' = <<>>
  /\ abstract_start' = None
  /\ abstract_end' = None
  /\ UNCHANGED <<self_section_patterns, outer_frames>>

Next ==
  \/ IdentifySectionType
  \/ ExtractTitle
  \/ ExtractAbstract
  \/ ExtractSectionsCall
  \/ ExtractSectionsLine
  \/ ExtractSectionsReturn
  \/ Discard

Spec == Init /\ [][Next]_vars

\* Repeated calls of _extract_sections on one DocumentProcessor: a first
\* call whose result the caller keeps, then calls with the same or with other
\* arguments.
NextRepeat ==
  \/ ExtractSectionsCall
  \/ ExtractSectionsLine
  \/ ExtractSectionsReturn
  \/ KeepResult
  \/ Discard

SpecRepeat == Init /\ [][NextRepeat]_vars

\* The frames of the private methods, untouched while process_document is
\* modelled with each of their calls taken whole.
method_frames ==
  <<fn, pc, text, page_number, lines, idx, section_type, current_section,
    current_content, sections, abstract_start, abstract_end, ret, earlier>>

\* process_document(file_path, filename): lines 23-28, or line 64 when
\* fitz.open raises.
ProcessDocumentCall ==
  /\ pd.pc = "idle"
  /\ pc = "idle"
  /\ \E file \in DocFiles, filename \in DocFilenames :
       pd' = IF file.valid
             THEN open_document(file.pages, filename, filename)
             ELSE [NoDocumentFrame EXCEPT
                     !.pc = "raised",
                     !.file_path = filename,
                     !.filename = filename,
                     !.ret = Some(processing_error(file.error))]
  /\ UNCHANGED <<self_section_patterns, method_frames, server>>

\* process_document: one iteration of the page loop, lines 30-44
ProcessDocumentPage ==
  /\ pd.pc = "pages"
  /\ pd.page_num < pd.page_count
  /\ pd' = process_page(pd)
  /\ UNCHANGED <<self_section_patterns, method_frames, server>>

\* process_document: lines 46-61
ProcessDocumentReturn ==
  /\ pd.pc = "pages"
  /\ pd.page_num = pd.page_count
  /\ pd' = [pd EXCEPT !.pc = "returned", !.ret = Some(document_info(pd))]
  /\ UNCHANGED <<self_section_patterns, method_frames, server>>

\* The caller drops the DocumentInfo or the exception.
ProcessDocumentDiscard ==
  /\ pd.pc \in {"returned", "raised"}
  /\ pd' = NoDocumentFrame
  /\ UNCHANGED <<self_section_patterns, method_frames, server>>

NextDocument ==
  \/ ProcessDocumentCall
  \/ ProcessDocumentPage
  \/ ProcessDocumentReturn
  \/ ProcessDocumentDiscard

SpecDocument == Init /\ [][NextDocument]_vars

\* upload_documents(files): lines 63-66
UploadDocumentsCall ==
  /\ req.pc = "idle"
  /\ \E files \in UploadRequests :
       /\ uuids + NumSaves(files) <= MaxUploads
       /\ req' = upload_documents_call(files)
  /\ UNCHANGED <<uploaded_documents, collection, uploads, uuids>>
  /\ UNCHANGED <<self_section_patterns, method_frames, pd>>

\* upload_documents: one iteration of the loop, lines 67-108
UploadDocumentsFile ==
  /\ req.pc = "loop"
  /\ Len(req.processed_docs) < Len(req.files)
  /\ \E cause \in {None, Some(IndexError)} :
       LET after == upload_file(World, req, cause)
       IN  /\ uploaded_documents' = after.w.uploaded_documents
           /\ collection' = after.w.collection
           /\ uploads' = after.w.uploads
           /\ uuids' = after.w.uuids
           /\ req' = after.fr
  /\ UNCHANGED <<self_section_patterns, method_frames, pd>>

\* upload_documents: line 110
UploadDocumentsReturn ==
  /\ req.pc = "loop"
  /\ Len(req.processed_docs) = Len(req.files)
  /\ req' = upload_documents_return(req)
  /\ UNCHANGED <<uploaded_documents, collection, uploads, uuids>>
  /\ UNCHANGED <<self_section_patterns, method_frames, pd>>

\* delete_document(file_id): lines 160-178
DeleteDocument ==
  /\ req.pc = "idle"
  /\ \E n \in 1..uuids, cause \in {None, Some(IndexError)} :
       LET after == delete_document(World, Uuid(n), cause)
       IN  /\ uploaded_documents' = after.w.uploaded_documents
           /\ collection' = after.w.collection
           /\ uploads' = after.w.uploads
           /\ uuids' = after.w.uuids
           /\ req' = after.fr
  /\ UNCHANGED <<self_section_patterns, method_frames, pd>>

\* The response has been sent; the frame of the handler is gone.
Respond ==
  /\ req.pc \in {"raised", "returned"}
  /\ req' = NoRequest
  /\ UNCHANGED <<uploaded_documents, collection, uploads, uuids>>
  /\ UNCHANGED <<self_section_patterns, method_frames, pd>>

NextServer ==
  \/ UploadDocumentsCall
  \/ UploadDocumentsFile
  \/ UploadDocumentsReturn
  \/ DeleteDocument
  \/ Respond

SpecServer == Init /\ [][NextServer]_vars

\* ------------------------------------------------------------------ claims

Returned(f) == fn = f /\ pc = "done"

\* The classification rules in the priority order the specification gives.
RuleOrder ==
  <<"title", "abstract", "introduction", "methodology", "results",
    "conclusion", "references", "section">>

\* The outcome the specification gives for a line: the type of the first rule
\* of RuleOrder that matches, None when no rule matches.
FirstRuleOf(got, line) ==
  /\ (got = None) <=> (\A k \in 1..Len(RuleOrder) : ~ re_search(RuleOrder[k], line))
  /\ got # None =>
       \E k \in 1..Len(RuleOrder) :
         /\ got = Some(RuleOrder[k])
         /\ re_search(RuleOrder[k], line)
         /\ \A j \in 1..(k - 1) : ~ re_search(RuleOrder[j], line)

\* C1: _identify_section_type returns the type of the first rule that matches
\* the line, the rules taken in the order title, abstract, introduction,
\* methodology, results, conclusion, references, section, and returns None
\* exactly when no rule matches; so does the call inside _extract_sections.
C1_FirstMatchingRule ==
  /\ Returned("identify_section_type") => FirstRuleOf(ret, text)
  /\ (pc = "loop" /\ idx > 0 /\ Strip(lines[idx]) # <<>>) =>
       FirstRuleOf(section_type, Strip(lines[idx]))

\* C1 witness: "Abstract" matches the title rule and the abstract rule and is
\* classified by the earlier one, title.
C1_Witness ==
  /\ Returned("identify_section_type")
  /\ text = LineAbstractCap
  /\ re_abstract(text)
  /\ ret = Some("title")

\* The rules with a numbered alternative.
NumberedNamedRules == {"introduction", "methodology", "results", "conclusion"}

\* C9: a line that matches a named numbered-heading rule and the generic
\* numeric-heading rule is classified as the named type, never as generic
\* 'section'; "2. Methodology" is classified as methodology.
C9_NamedBeforeGeneric ==
  Returned("identify_section_type") =>
    /\ text = LineMethodology => ret = Some("methodology")
    /\ \A r \in NumberedNamedRules :
         (re_search(r, text) /\ re_section(text)) =>
           /\ ret # Some("section")
           /\ ret # None
           /\ ret[1] \in NumberedNamedRules
           /\ re_search(ret[1], text)

\* C9 witness: "2. Methodology" matches the methodology rule and the generic
\* rule and has been classified as methodology.
C9_Witness ==
  /\ Returned("identify_section_type")
  /\ text = LineMethodology
  /\ re_methodology(text)
  /\ re_section(text)
  /\ ret = Some("methodology")

\* Every character of the text is whitespace or a line break.
OnlyBlankLines(t) == \A i \in 1..Len(t) : t[i] \in Whitespace

\* C4: for a page text made only of blank lines (empty or whitespace-only),
\* and any page number, _extract_sections returns the empty list.
C4_BlankPageNoSections ==
  (Returned("extract_sections") /\ OnlyBlankLines(text)) => ret = <<>>

\* C4 witness: a page of several lines, one of them whitespace-only, has been
\* segmented into the empty list.
C4_Witness ==
  /\ Returned("extract_sections")
  /\ OnlyBlankLines(text)
  /\ \E i \in 1..Len(text) : text[i] = NL
  /\ \E i \in 1..Len(text) : text[i] = "\t"
  /\ ret = <<>>

\* A line holds a character that is not whitespace.
NonBlank(l) == \E i \in 1..Len(l) : l[i] \notin Whitespace

\* A line that _extract_sections classifies as a heading of a named type: the
\* classification is that of the line without its surrounding whitespace.
NamedHeading(l) ==
  NonBlank(l) /\ identify_section_type(Strip(l)) \notin {None, Some("section")}

\* The type detected for a named heading line.
DetectedType(l) == identify_section_type(Strip(l))[1]

\* The lines of the page that follow line i and are not blank, up to the next
\* named heading; joined with single spaces they are the body under line i.
NextNamed(L, i) ==
  IF \E j \in (i + 1)..Len(L) : NamedHeading(L[j])
  THEN CHOOSE j \in (i + 1)..Len(L) :
         NamedHeading(L[j]) /\ \A m \in (i + 1)..(j - 1) : ~ NamedHeading(L[m])
  ELSE Len(L) + 1
BodyLines(L, i) ==
  SelectSeq([m \in 1..(NextNamed(L, i) - i - 1) |-> Strip(L[i + m])], NonBlank)
BodyText(L, i) == Strip(Join(<<" ">>, BodyLines(L, i)))

\* C5: when two named heading lines follow each other with no non-blank line
\* between them, then before the opening record of the second heading a
\* closing record of the first is emitted: title the first heading line,
\* content empty, section_type 'section'.
C5_EmptyClosingRecord ==
  (pc = "loop" /\ idx >= 2 /\ NamedHeading(lines[idx])) =>
    \A j \in 1..(idx - 1) :
      (NamedHeading(lines[j]) /\ \A m \in (j + 1)..(idx - 1) : ~ NonBlank(lines[m])) =>
        /\ Len(sections) >= 2
        /\ sections[Len(sections)] =
             DocumentSection(Strip(lines[idx]), <<>>, page_number, DetectedType(lines[idx]))
        /\ sections[Len(sections) - 1] =
             DocumentSection(Strip(lines[j]), <<>>, page_number, "section")

\* C5 witness: the loop has just taken a methodology heading that follows an
\* abstract heading with only a blank line between them.
C5_Witness ==
  /\ pc = "loop"
  /\ idx = 3
  /\ lines[1] = LineAbstract
  /\ ~ NonBlank(lines[2])
  /\ lines[3] = LineMethodology
  /\ Len(sections) = 3
  /\ sections[2] = DocumentSection(LineAbstract, <<>>, page_number, "section")

\* The positions of the named heading lines of the page, and of the records
\* of the result that carry a named type, each in order.
NamedLines(L) == {i \in 1..Len(L) : NamedHeading(L[i])}
OpeningRecords(secs) == {p \in 1..Len(secs) : secs[p].section_type # "section"}
\* The opening record of the heading at line i: the k-th record of a named
\* type for the k-th named heading.
OpeningOf(L, secs, i) ==
  CHOOSE p \in OpeningRecords(secs) :
    Cardinality({q \in OpeningRecords(secs) : q <= p}) =
      Cardinality({j \in NamedLines(L) : j <= i})
HasOpening(L, secs, i, pn) ==
  /\ Cardinality(OpeningRecords(secs)) = Cardinality(NamedLines(L))
  /\ secs[OpeningOf(L, secs, i)] =
       DocumentSection(Strip(L[i]), <<>>, pn, DetectedType(L[i]))
HasClosing(L, secs, i, pn) ==
  \E q \in (OpeningOf(L, secs, i) + 1)..Len(secs) :
    secs[q] = DocumentSection(Strip(L[i]), BodyText(L, i), pn, "section")

\* C2 as stated: every named heading line of the page has, in the result, an
\* opening record (title the line, content empty, the detected type) and a
\* later closing record (same title, section_type 'section', the body text
\* accumulated under the heading).
C2_EveryHeadingTwoRecords ==
  Returned("extract_sections") =>
    \A i \in NamedLines(Split(text)) :
      /\ HasOpening(Split(text), ret, i, page_number)
      /\ HasClosing(Split(text), ret, i, page_number)

\* The heading at line i is closed: another named heading follows it on the
\* page, or a non-blank line does.
IsClosed(L, i) == NextNamed(L, i) <= Len(L) \/ BodyLines(L, i) # <<>>

\* C2 amended: every named heading line has its opening record; it has the
\* later closing record when a named heading or a non-blank line follows it on
\* the page; the last named heading of a page with no non-blank line after it
\* has the opening record only, which is then the last record of the result.
C2_HeadingRecords ==
  Returned("extract_sections") =>
    \A i \in NamedLines(Split(text)) :
      /\ HasOpening(Split(text), ret, i, page_number)
      /\ IsClosed(Split(text), i) => HasClosing(Split(text), ret, i, page_number)
      /\ ~ IsClosed(Split(text), i) => OpeningOf(Split(text), ret, i) = Len(ret)

\* C2 witness: a page with a heading, body text under it, and a last heading
\* with nothing after it: opening, closing with content, opening.
C2_Witness ==
  /\ Returned("extract_sections")
  /\ Len(ret) = 3
  /\ ret[1].section_type = "abstract" /\ ret[1].content = <<>>
  /\ ret[2].section_type = "section" /\ ret[2].title = ret[1].title
  /\ ret[2].content = LineBody
  /\ ret[3].section_type = "methodology"

\* The page has exactly one non-blank line, line i, and it is no heading of a
\* named type.
OnlyBodyLine(L, i) ==
  /\ i \in 1..Len(L)
  /\ NonBlank(L[i])
  /\ ~ NamedHeading(L[i])
  /\ \A m \in 1..Len(L) : m # i => ~ NonBlank(L[m])

\* C3 as stated: for a page with exactly one non-blank line, not a heading,
\* the result is one record titled "Page {pageNumber} Content" whose content
\* equals that line.
C3_ContentEqualsLine ==
  Returned("extract_sections") =>
    \A i \in 1..Len(Split(text)) :
      OnlyBodyLine(Split(text), i) =>
        ret = << DocumentSection(PageContentTitle(page_number), Split(text)[i],
                                 page_number, "section") >>

\* C3 amended: for a page with exactly one non-blank line, not a heading, the
\* result is one record titled "Page {pageNumber} Content", page_number
\* pageNumber, section_type 'section', whose content equals that line with its
\* leading and trailing whitespace removed.
C3_ContentEqualsStrippedLine ==
  Returned("extract_sections") =>
    \A i \in 1..Len(Split(text)) :
      OnlyBodyLine(Split(text), i) =>
        ret = << [title |-> <<"P","a","g","e"," ">> \o Str(page_number)
                              \o <<" ","C","o","n","t","e","n","t">>,
                  content |-> Strip(Split(text)[i]),
                  page_number |-> page_number,
                  section_type |-> "section"] >>

\* C3 witness: page 12 holds one padded body line and blank lines; the result
\* is the single record "Page 12 Content" with the line stripped.
C3_Witness ==
  /\ Returned("extract_sections")
  /\ page_number = 12
  /\ \E i \in 1..Len(lines) : lines[i] = LinePadded /\ OnlyBodyLine(lines, i)
  /\ Len(lines) >= 2
  /\ Len(ret) = 1
  /\ ret[1].content = Strip(LinePadded)
  /\ ret[1].content # LinePadded

\* The least element of a non-empty set of numbers.
Least(S) == CHOOSE x \in S : \A y \in S : x <= y

\* The lines that match the abstract heading rule, and the rule that ends an
\* abstract: a numeric ordinal and period, 'introduction' or '1.', 'keywords'
\* or 'key words', each at the start of the line.
AbstractHeadings(L) == {i \in 1..Len(L) : re_abstract(L[i])}
EndsAbstract(l) == re_numbered(l) \/ re_intro_or_one(l) \/ re_keywords(l)

\* C6: in _extract_abstract the abstract starts at the line immediately after
\* the first line that matches the abstract heading rule and ends (exclusive)
\* at the first later line that matches an end rule; later lines that match
\* the abstract rule do not move the start.  Indices are those of the code,
\* 0-based: after the heading at 1-based line h the start is h.
C6_StartAfterFirstHeading ==
  Returned("extract_abstract") =>
    LET L == Split(text)
    IN  IF AbstractHeadings(L) = {}
        THEN abstract_start = None
        ELSE LET h == Least(AbstractHeadings(L))
                 ends == {j \in (h + 1)..Len(L) : EndsAbstract(L[j])}
             IN  /\ abstract_start = Some(h)
                 /\ abstract_end = IF ends = {} THEN None ELSE Some(Least(ends) - 1)

\* The text described for the locals of _extract_abstract: the
\* lines from start to end, or from start to start+10 when no end was found,
\* joined with single spaces and trimmed.
JoinedWindow(L, start, end) ==
  LET last == IF end # None THEN end[1]
              ELSE IF start[1] + 10 < Len(L) THEN start[1] + 10 ELSE Len(L)
  IN  Strip(Join(<<" ">>, SubSeq(L, start[1] + 1, last)))

\* C7: _extract_abstract returns the lines from start to end (start to
\* start+10 when no end was found) joined with single spaces and trimmed, if
\* and only if a start was found and that text is longer than 50 characters;
\* in every other case it returns None.
C7_AbstractTextOrNone ==
  Returned("extract_abstract") =>
    LET found == abstract_start # None
            /\ Len(JoinedWindow(Split(text), abstract_start, abstract_end)) > 50
    IN  /\ found => ret = Some(JoinedWindow(Split(text), abstract_start, abstract_end))
        /\ ~ found => ret = None

\* C7 witness: no end line was found, the text has lines beyond the window of
\* ten, and the joined window, longer than 50 characters, has been returned.
C7_Witness ==
  /\ Returned("extract_abstract")
  /\ abstract_start # None
  /\ abstract_end = None
  /\ Len(Split(text)) > abstract_start[1] + 10
  /\ ret # None
  /\ Len(ret[1]) > 50

\* A line qualifies as a title: its trimmed length is strictly between 10 and
\* 200 and it holds none of the four words, letter case ignored.
QualifiesAsTitle(l) ==
  /\ Len(Strip(l)) > 10
  /\ Len(Strip(l)) < 200
  /\ \A w \in { <<"a","b","s","t","r","a","c","t">>,
                <<"i","n","t","r","o","d","u","c","t","i","o","n">>,
                <<"p","a","g","e">>,
                <<"d","o","i">> } : ~ Contains(Lower(l), w)

\* The qualifying lines among the first 10 lines.
TitleCandidates(L) == {k \in 1..Len(L) : k <= 10 /\ QualifiesAsTitle(L[k])}

\* C8 as stated: _extract_title returns the first line among the first 10
\* that qualifies, and "Untitled Document" if none of the first 10 does.
C8_TitleIsFirstQualifyingLine ==
  Returned("extract_title") =>
    LET L == Split(text)
    IN  ret = IF TitleCandidates(L) # {} THEN L[Least(TitleCandidates(L))]
              ELSE <<"U","n","t","i","t","l","e","d"," ","D","o","c","u","m","e","n","t">>

\* C8 amended: _extract_title returns, with its leading and trailing
\* whitespace removed, the first line among the first 10 that qualifies, and
\* "Untitled Document" if none of the first 10 does.
C8_TitleIsFirstQualifyingLineStripped ==
  Returned("extract_title") =>
    LET L == Split(text)
    IN  ret = IF TitleCandidates(L) # {} THEN Strip(L[Least(TitleCandidates(L))])
              ELSE <<"U","n","t","i","t","l","e","d"," ","D","o","c","u","m","e","n","t">>

\* C8 witness: the only qualifying line is the 11th and the fallback has been
\* returned.
C8_Witness ==
  /\ Returned("extract_title")
  /\ Len(Split(text)) >= 11
  /\ QualifiesAsTitle(Split(text)[11])
  /\ TitleCandidates(Split(text)) = {}
  /\ ret = UntitledDocument

\* A string: a sequence of characters.
IsString(v) == \A i \in 1..Len(v) : v[i] \in STRING

\* C10: the three methods return a value for every string and never raise:
\* the loop of a started call stays within the lines, so that its next step
\* or its return can be taken, and the value returned has the method's type; for the empty string _extract_sections returns the
\* empty list, _extract_title "Untitled Document" and _extract_abstract None.
C10_TotalOnStrings ==
  /\ pc = "loop" => idx \in 0..Len(lines)
  /\ Returned("extract_sections") =>
       /\ \A p \in 1..Len(ret) :
            /\ DOMAIN ret[p] = {"title", "content", "page_number", "section_type"}
            /\ IsString(ret[p].title)
            /\ IsString(ret[p].content)
            /\ ret[p].page_number = page_number
       /\ text = <<>> => ret = <<>>
  /\ Returned("extract_title") =>
       /\ IsString(ret)
       /\ text = <<>> =>
            ret = <<"U","n","t","i","t","l","e","d"," ","D","o","c","u","m","e","n","t">>
  /\ Returned("extract_abstract") =>
       /\ ret = None \/ (Len(ret) = 1 /\ IsString(ret[1]))
       /\ text = <<>> => ret = None

\* C10 witness: _extract_title has returned the fallback for the empty string.
C10_Witness ==
  /\ Returned("extract_title")
  /\ text = <<>>
  /\ ret = UntitledDocument

\* C16: in _extract_sections a line classified as generic 'section' or as
\* None does not close a section and produces no record: the list of records
\* is left as it is, the stripped line is appended to the content buffer, and
\* the title of the open section is unchanged; when no section is open, the
\* section "Page {pageNumber} Content" is opened and the line is its first
\* content line.
C16_GenericLineFrame ==
  [][(/\ pc = "loop"
      /\ idx' = idx + 1
      /\ NonBlank(lines[idx + 1])
      /\ identify_section_type(Strip(lines[idx + 1])) \in {None, Some("section")})
     => /\ sections' = sections
        /\ current_content' = Append(current_content, Strip(lines[idx + 1]))
        /\ current_section' =
             IF current_section = None
             THEN Some(<<"P","a","g","e"," ">> \o Str(page_number)
                         \o <<" ","C","o","n","t","e","n","t">>)
             ELSE current_section]_vars

\* C16 witness: the loop has taken a body line, which opened "Page 1 Content",
\* and then a line of the generic type 'section', which was appended to the
\* buffer under the same title without any record being produced.
C16_Witness ==
  /\ pc = "loop"
  /\ idx = 2
  /\ page_number = 1
  /\ lines[1] = LineBody
  /\ lines[2] = LineDiscussion
  /\ identify_section_type(LineBody) = None
  /\ identify_section_type(LineDiscussion) = Some("section")
  /\ sections = <<>>
  /\ current_section = Some(<<"P","a","g","e"," ","1"," ","C","o","n","t","e","n","t">>)
  /\ current_content = <<LineBody, LineDiscussion>>

\* A line of the page that is body text: not blank and not a named heading.
IsBodyLine(l) == NonBlank(l) /\ ~ NamedHeading(l)

\* A record with non-empty content.
HasContent(r) == r.content # <<>>

\* The stripped body lines of the page, in page order.
StrippedBodyLines(L) ==
  LET body == SelectSeq(L, IsBodyLine)
  IN  [i \in 1..Len(body) |-> Strip(body[i])]

\* The contents of the records that have content, in output order.
Contents(secs) ==
  LET full == SelectSeq(secs, HasContent)
  IN  [i \in 1..Len(full) |-> full[i].content]

\* C19: _extract_sections loses and duplicates no body text: the contents of
\* the records with non-empty content, in output order and joined with single
\* spaces, are the stripped non-blank lines of the page that are not named
\* headings, each once and in page order, joined with single spaces; every
\* record with non-empty content has section_type 'section', and every record
\* with a named section_type has empty content.
C19_NoBodyTextLost ==
  Returned("extract_sections") =>
    /\ Join(<<" ">>, Contents(ret)) = Join(<<" ">>, StrippedBodyLines(Split(text)))
    /\ \A p \in 1..Len(ret) :
         /\ ret[p].content # <<>> => ret[p].section_type = "section"
         /\ ret[p].section_type # "section" => ret[p].content = <<>>

\* C19 witness: a page with a body line, a named heading and a padded body
\* line has returned; two records carry the two body lines, stripped.
C19_Witness ==
  /\ Returned("extract_sections")
  /\ Split(text) = <<LineBody, LineMethodology, LinePadded>>
  /\ Contents(ret) = <<LineBody, Strip(LinePadded)>>
  /\ Len(ret) = 3
  /\ ret[2].section_type = "methodology"
  /\ ret[2].content = <<>>

\* A call of _extract_sections with the arguments of the held call has returned.
RepeatedCallReturned ==
  /\ Returned("extract_sections")
  /\ earlier # None
  /\ text = earlier[1].text
  /\ page_number = earlier[1].page_number

\* C11: segmentation is deterministic and leaves no state behind: a call of
\* _extract_sections with the text and page number of an earlier call on the
\* same DocumentProcessor, whatever calls were made in between, returns the
\* list the earlier call returned, and self.section_patterns is at every
\* moment the value __init__ gave it.
C11_DeterministicStateless ==
  /\ self_section_patterns = section_patterns
  /\ RepeatedCallReturned => ret = earlier[1].ret

\* C11 witness: after a call on a page with a heading and a body line, whose
\* result is held, and a call with other arguments, the call is repeated and
\* returns the same three records.
C11_Witness ==
  /\ RepeatedCallReturned
  /\ earlier[1].other_calls
  /\ Split(text) = <<LineMethodology, LineBody>>
  /\ Len(ret) = 2
  /\ ret = earlier[1].ret

\* process_document has returned a DocumentInfo.
DocumentReturned == pd.pc = "returned"

\* The positions of the list secs whose record carries page number p.
OfPage(secs, p) == {i \in 1..Len(secs) : secs[i].page_number = p}

\* The section list is ordered by page, with page numbers in 1..n, and holds
\* for each of the pages 1..n of doc as many records with that page's number as
\* segmenting the page yields.
OrderedByPage(secs, doc, n) ==
  /\ \A i \in 1..Len(secs) : secs[i].page_number \in 1..n
  /\ \A i \in 1..Len(secs), j \in 1..Len(secs) :
       i < j => secs[i].page_number <= secs[j].page_number
  /\ \A p \in 1..n :
       Cardinality(OfPage(secs, p)) = Len(extract_sections(doc[p], p))

\* C12: in the section list of every DocumentInfo returned by
\* process_document, page_number is non-decreasing along the list, every
\* page_number is in 1..page_count, and the records produced from page p carry
\* page_number = p; the same holds of the list built so far after each page.
C12_SectionsOrderedByPage ==
  /\ pd.pc = "pages" => OrderedByPage(pd.sections, pd.doc, pd.page_num)
  /\ DocumentReturned =>
       /\ pd.ret[1].page_count = Len(pd.doc)
       /\ OrderedByPage(pd.ret[1].sections, pd.doc, pd.ret[1].page_count)

\* C12 witness: a document of two pages has been processed; its list holds
\* records of page 1 followed by records of page 2.
C12_Witness ==
  /\ DocumentReturned
  /\ pd.doc = <<PageFront, PageMethod>>
  /\ pd.ret[1].page_count = 2
  /\ Cardinality(OfPage(pd.ret[1].sections, 1)) >= 2
  /\ Cardinality(OfPage(pd.ret[1].sections, 2)) = 2
  /\ pd.ret[1].sections[Len(pd.ret[1].sections)].page_number = 2

\* The concatenation, in page order, of the lists _extract_sections yields for
\* each of the first n pages of doc taken by itself.
RECURSIVE SegmentedSeparately(_, _)
SegmentedSeparately(doc, n) ==
  IF n = 0 THEN <<>>
  ELSE SegmentedSeparately(doc, n - 1) \o extract_sections(doc[n], n)

UploadFailed ==
  /\ req.handler = "upload_documents"
  /\ req.pc = "raised"
  /\ req.response[1].status_code = 500

\* The file the loop of the ended upload request stopped at.
FailingFile == req.files[Len(req.processed_docs) + 1]

\* The index entries whose metadata names the document file_id.
EntriesOf(file_id) == {e \in collection : e.metadata.file_id = file_id}

\* C14: a document whose processing fails during upload (process_document or
\* add_document raises) is rejected in its entirety: after the failed upload
\* uploaded_documents has no entry for its file_id, the index has no entry of
\* it, its saved file is not in the uploads directory, and the error the
\* caller receives contains the message of the original cause.
C14_FailedUploadRejected ==
  UploadFailed =>
    /\ req.file_id \notin DOMAIN uploaded_documents
    /\ EntriesOf(req.file_id) = {}
    /\ req.file_path = <<"u","p","l","o","a","d","s","/">> \o req.file_id
                         \o <<"_">> \o FailingFile.filename
    /\ req.file_path \notin DOMAIN uploads
    /\ Contains(req.response[1].detail,
                IF FailingFile.content.valid THEN IndexError
                ELSE FailingFile.content.error)

\* C14 witness: the upload of a sound paper has failed in add_document; the
\* response carries the index's message.
C14_Witness ==
  /\ UploadFailed
  /\ FailingFile = FilePaper
  /\ req.file_id = Uuid(1)
  /\ Contains(req.response[1].detail, IndexError)
  /\ collection = {}
  /\ DOMAIN uploads = {}

\* delete_document has returned success.
DeleteSucceeded ==
  /\ req.handler = "delete_document"
  /\ req.pc = "returned"

\* C15: whenever delete_document(file_id) returns success, the index has no
\* entry whose file_id metadata equals file_id, uploaded_documents has no
\* entry for file_id, and the document's file is gone, also when the index
\* removal step failed.
C15_DeleteCascades ==
  DeleteSucceeded =>
    /\ EntriesOf(req.file_id) = {}
    /\ req.file_id \notin DOMAIN uploaded_documents
    /\ req.file_path \notin DOMAIN uploads

\* The record a named heading opens: empty content and a specific type.
HeadingRecord(r) == r.content = <<>> /\ r.section_type # "section"

\* The index key of the section at position i (0-based) of document file_id.
SectionKey(file_id, i) ==
  file_id \o <<"_","s","e","c","t","i","o","n","_">> \o Str(i)

\* The index key of the abstract of document file_id.
AbstractKey(file_id) == file_id \o <<"_","a","b","s","t","r","a","c","t">>

\* The section list of the registered document file_id.
SectionsOf(file_id) == uploaded_documents[file_id].sections

NonBlankPositions(secs) ==
  {i \in 0..(Len(secs) - 1) : NonBlank(secs[i + 1].content)}

\* C18: the keys add_document writes for a document are pairwise distinct;
\* the key of a section is "{file_id}_section_{i}" with i the 0-based position
\* of the section in the document's full section list, one for every section
\* with content and none for the others; the key "{file_id}_abstract" is
\* written exactly when the document has an abstract; and no key is shared
\* by entries of different documents.
C18_IndexKeys ==
  /\ \A e1 \in collection, e2 \in collection : e1.id = e2.id => e1 = e2
  /\ \A f \in DOMAIN uploaded_documents :
       LET d == uploaded_documents[f]
       IN  /\ \A e \in EntriesOf(f) :
                \/ \E i \in NonBlankPositions(d.sections) :
                     /\ e.id = SectionKey(f, i)
                     /\ e.document = d.sections[i + 1].content
                     /\ e.metadata.section_title = d.sections[i + 1].title
                     /\ e.metadata.page_number = d.sections[i + 1].page_number
                \/ /\ e.id = AbstractKey(f)
                   /\ d.abstract # None
                   /\ e.document = d.abstract[1]
           /\ \A i \in NonBlankPositions(d.sections) :
                \E e \in EntriesOf(f) : e.id = SectionKey(f, i)
           /\ d.abstract # None <=> \E e \in EntriesOf(f) : e.id = AbstractKey(f)
           /\ Cardinality(EntriesOf(f)) =
                Cardinality(NonBlankPositions(d.sections))
                + (IF d.abstract # None THEN 1 ELSE 0)

\* C18 witness: two papers are registered and indexed; the first has the
\* abstract key and the section keys of positions 7 and 9, the only sections
\* of its list with content.
C18_Witness ==
  /\ DOMAIN uploaded_documents = {Uuid(1), Uuid(2)}
  /\ \E e \in collection : e.id = AbstractKey(Uuid(1))
  /\ \E e \in collection : e.id = SectionKey(Uuid(1), 7)
  /\ \A e \in collection : e.id # SectionKey(Uuid(1), 0)
  /\ EntriesOf(Uuid(2)) # {}
  /\ NonBlankPositions(SectionsOf(Uuid(1))) = {7, 9}

\* upload_documents is being served or has just ended.
InUpload == req.handler = "upload_documents"

\* The document file_id is registered under the name filename and its
\* sections with content and its abstract are in the index.
RegisteredAndIndexed(file_id, filename) ==
  /\ file_id \in DOMAIN uploaded_documents
  /\ uploaded_documents[file_id].filename = filename
  /\ Cardinality(EntriesOf(file_id)) =
       Cardinality(NonBlankPositions(SectionsOf(file_id)))
       + (IF uploaded_documents[file_id].abstract # None THEN 1 ELSE 0)

\* The files the request has processed are its first files, in order, and
\* each is registered and indexed.
ProcessedInOrder ==
  InUpload =>
    /\ Len(req.processed_docs) <= Len(req.files)
    /\ \A k \in 1..Len(req.processed_docs) :
         RegisteredAndIndexed(req.processed_docs[k].file_id, req.files[k].filename)

\* C20: upload_documents handles the files of a request in order and stops
\* at the first failing file: a request with more than 5 files is rejected at
\* once with nothing saved, registered or indexed; a step of the loop that
\* goes on has registered and indexed the next file of the list, whose name
\* ends in ".pdf"; the step that ends the request with an error registers and
\* indexes nothing and saves no file, and after it nothing more of the request
\* is handled; and at every moment the files processed so far are the first
\* files of the list and stay registered and indexed.
C20_UploadStopsAtFirstFailure ==
  [][/\ (req.pc = "idle" /\ req'.handler = "upload_documents"
           /\ Len(req'.files) > 5) =>
          /\ req'.pc = "raised"
          /\ req'.response[1].status_code = 400
          /\ UNCHANGED <<uploaded_documents, collection, uploads>>
     /\ (InUpload /\ req.pc = "loop" /\ req'.pc = "loop") =>
          LET k == Len(req.processed_docs) + 1
          IN  /\ Len(req'.processed_docs) = k
              /\ SubSeq(req'.processed_docs, 1, k - 1) = req.processed_docs
              /\ req'.processed_docs[k].filename = req.files[k].filename
              /\ req'.processed_docs[k].file_id \notin DOMAIN uploaded_documents
              /\ SubSeq(req.files[k].filename, Len(req.files[k].filename) - 3,
                        Len(req.files[k].filename)) = <<".","p","d","f">>
              /\ req.files[k].content.valid
     /\ (InUpload /\ req.pc = "loop" /\ req'.pc = "raised") =>
          /\ UNCHANGED <<uploaded_documents, collection, uploads>>
          /\ req'.processed_docs = req.processed_docs
          /\ Len(req.processed_docs) < Len(req.files)
     /\ (InUpload /\ req.pc = "loop" /\ req'.pc = "returned") =>
          /\ UNCHANGED <<uploaded_documents, collection, uploads>>
          /\ Len(req.processed_docs) = Len(req.files)
     /\ (InUpload /\ req.pc \in {"raised", "returned"}) =>
          /\ UNCHANGED <<uploaded_documents, collection, uploads>>
          /\ req'.pc = "idle"
     /\ ProcessedInOrder'
    ]_vars

\* C20 witness: of the request (paper, broken file, paper) the first file is
\* registered and indexed, the second has ended the request with an error,
\* and nothing of the second and third is registered, indexed or saved.
C20_Witness ==
  /\ InUpload
  /\ req.pc = "raised"
  /\ req.files = <<FilePaper, FileBroken, FilePaper>>
  /\ Len(req.processed_docs) = 1
  /\ DOMAIN uploaded_documents = {Uuid(1)}
  /\ EntriesOf(Uuid(1)) # {}
  /\ \A e \in collection : e.metadata.file_id = Uuid(1)
  /\ Cardinality(DOMAIN uploads) = 1
  /\ uuids = 2

====
